---- MODULE Spec2Model ----
(***************************************************************************)
(* Model of the pika-chart-card custom element (src/src/pika-chart-card.ts)*)
(* One card instance: its fields, the host-driven lifecycle callbacks, the *)
(* Lit update cycle (render / firstUpdated / updated), the refresh timer   *)
(* and the asynchronous fetch cycles started by updateChart.               *)
(* A second specification, SpecAxis, exercises the pure axis mapper.       *)
(***************************************************************************)
EXTENDS Integers, Sequences, FiniteSets, TLC

\* ---- bounds of the model -------------------------------------------------
MaxCycles == 3
MaxTimers == 2
MaxAxisEntities == 3
MaxYAxis == 2
MaxRecords == 2
MaxFetchEntities == 3

\* ---- values ---------------------------------------------------------------
NoError == "none"
ConfigError == "Error: Please define at least one entity"
TypeError == "TypeError"

Libraries == {"chartjs", "d3"}

\* config before any accepted setConfig (the field is declared, not assigned)
NoConfig == [set |-> FALSE, entities |-> <<>>, library |-> "none"]

\* arguments the host may pass to setConfig: entities missing, empty or one
\* entity; library omitted ("unset") or named
ConfigInputs ==
    [hasEntities : BOOLEAN, entities : {<<>>, <<"sensor.temperature">>},
     library : {"unset"} \cup Libraries]

VARIABLES
    config,             \* this.config
    hass,               \* this.hass is set
    attached,           \* the element is in the document
    enabled,            \* Lit: updates enabled (first connectedCallback ran)
    isUpdatePending,    \* Lit: an update is requested
    changedProperties,  \* Lit: properties changed since the last update
    hasUpdated,         \* Lit: the first update has run
    chartContainer,     \* this.chartContainer was found
    chartManager,       \* this.chartManager: 0 is null, else a manager id
    adapters,           \* adapters[m]: backend chosen for manager m
    refreshInterval,    \* this.refreshInterval: 0 is null, else a timer id
    timers,             \* interval timers the window still runs
    nextTimer,          \* next id window.setInterval returns
    inflight,           \* refresh cycles awaiting fetchEntityData
    nextCycle,          \* number of the next refresh cycle
    calls,              \* calls made on managers, in order
    discarded,          \* cycles whose series updateChart's catch dropped
    last,               \* what the last handler did
    entityAxisIds,      \* SpecAxis: yaxis_id of each configured entity
    axisIdMapping,      \* SpecAxis: result of createAxisIdMapping
    axisComputed,       \* SpecAxis: createAxisIdMapping has run
    yaxisConfig,        \* SpecLayout: id of each definition of config.yaxis
    chartAxes,          \* SpecLayout: definitions createChartOptions placed
    layoutDone,         \* SpecLayout: createChartOptions has run
    dataRecords,        \* SpecHistory, SpecStatistics: raw records of a query
    dataConfig,         \* SpecHistory, SpecStatistics: the entity's config
    dataPoints,         \* SpecHistory, SpecStatistics: points produced
    dataDone,           \* SpecHistory, SpecStatistics: transformer has run
    fetchEntities,      \* SpecFetch: the configured entities
    fetchPhase,         \* SpecFetch: position of the refresh cycle
    fetchResults,       \* SpecFetch: state of each per-entity promise
    fetchOrder,         \* SpecFetch: entities in the order their query settled
    fetchFailed,        \* SpecFetch: entities whose query failed
    fetchApplied        \* SpecFetch: series passed to chartManager.update

cardVars == <<config, hass, attached, enabled, isUpdatePending,
              changedProperties, hasUpdated, chartContainer, chartManager,
              adapters, refreshInterval, timers, nextTimer, inflight,
              nextCycle, calls, discarded, last>>
axisVars == <<entityAxisIds, axisIdMapping, axisComputed>>
layoutVars == <<yaxisConfig, chartAxes, layoutDone>>
dataVars == <<dataRecords, dataConfig, dataPoints, dataDone>>
fetchVars == <<fetchEntities, fetchPhase, fetchResults, fetchOrder,
               fetchFailed, fetchApplied>>
pureVars == <<axisVars, layoutVars, dataVars, fetchVars>>
vars == <<cardVars, pureVars>>

Call(op, m, c) == [op |-> op, mgr |-> m, cycle |-> c]

\* record of one handler run: exception escaped, updateChart invocations,
\* whether destroy was called, timers created and cleared
Did(handler) ==
    [handler |-> handler, thrown |-> NoError, triggers |-> <<>>,
     destroyed |-> FALSE, setIntervals |-> 0, clearIntervals |-> 0]

\* The handlers run several methods in one step; st is the state those
\* methods share while the handler named h runs.
Running(h) ==
    [mgr |-> chartManager, container |-> chartContainer,
     adapters |-> adapters, calls |-> calls, inflight |-> inflight,
     nextCycle |-> nextCycle, refreshInterval |-> refreshInterval,
     timers |-> timers, nextTimer |-> nextTimer, discarded |-> discarded,
     last |-> Did(h)]

\* the handler returns: its state becomes the card's, within the bounds
Commit(st) ==
    /\ st.nextCycle <= MaxCycles + 1
    /\ st.nextTimer <= MaxTimers + 1
    /\ chartManager' = st.mgr
    /\ chartContainer' = st.container
    /\ adapters' = st.adapters
    /\ calls' = st.calls
    /\ inflight' = st.inflight
    /\ nextCycle' = st.nextCycle
    /\ refreshInterval' = st.refreshInterval
    /\ timers' = st.timers
    /\ nextTimer' = st.nextTimer
    /\ discarded' = st.discarded
    /\ last' = st.last

\* ---- setConfig ------------------------------------------------------------
\* setConfig without the entity check
SetConfigUnchecked(c) ==
    /\ last' = Did("setConfig")
    /\ config' = [set |-> TRUE, entities |-> c.entities,
                  library |-> IF c.library = "unset" THEN "chartjs"
                              ELSE c.library]
    /\ isUpdatePending' = TRUE
    /\ changedProperties' = changedProperties \cup {"config"}
    /\ UNCHANGED <<hass, attached, enabled, hasUpdated, chartContainer,
                   chartManager, adapters, refreshInterval, timers, nextTimer,
                   inflight, nextCycle, calls, discarded>>

SetConfig(c) ==
    /\ IF ~c.hasEntities \/ Len(c.entities) = 0
       THEN /\ last' = [Did("setConfig") EXCEPT !.thrown = ConfigError]
            /\ UNCHANGED <<config, isUpdatePending, changedProperties>>
       ELSE /\ last' = Did("setConfig")
            /\ config' = [set |-> TRUE, entities |-> c.entities,
                          library |-> IF c.library = "unset" THEN "chartjs"
                                      ELSE c.library]
            /\ isUpdatePending' = TRUE
            /\ changedProperties' = changedProperties \cup {"config"}
    /\ UNCHANGED <<hass, attached, enabled, hasUpdated, chartContainer,
                   chartManager, adapters, refreshInterval, timers, nextTimer,
                   inflight, nextCycle, calls, discarded>>

\* the host assigns a new hass object (initially, then on every state change)
SetHass ==
    /\ hass' = TRUE
    /\ isUpdatePending' = TRUE
    /\ changedProperties' = changedProperties \cup {"hass"}
    /\ last' = Did("hass")
    /\ UNCHANGED <<config, attached, enabled, hasUpdated, chartContainer,
                   chartManager, adapters, refreshInterval, timers, nextTimer,
                   inflight, nextCycle, calls, discarded>>

\* ---- refresh timer --------------------------------------------------------
\* startRefreshInterval without the "already running" return
StartRefreshIntervalUnguarded(st) ==
    IF ~config.set THEN [st EXCEPT !.last.thrown = TypeError]
    ELSE [st EXCEPT !.refreshInterval = st.nextTimer,
                    !.timers = @ \cup {st.nextTimer},
                    !.nextTimer = @ + 1,
                    !.last.setIntervals = @ + 1]

StartRefreshInterval(st) ==
    IF st.refreshInterval # 0 THEN st
    ELSE IF ~config.set THEN [st EXCEPT !.last.thrown = TypeError]
    ELSE [st EXCEPT !.refreshInterval = st.nextTimer,
                    !.timers = @ \cup {st.nextTimer},
                    !.nextTimer = @ + 1,
                    !.last.setIntervals = @ + 1]

StopRefreshInterval(st) ==
    IF st.refreshInterval # 0
    THEN [st EXCEPT !.timers = @ \ {st.refreshInterval},
                    !.refreshInterval = 0,
                    !.last.clearIntervals = @ + 1]
    ELSE st

ConnectedCallback ==
    /\ attached' = TRUE
    /\ enabled' = TRUE
    /\ Commit(StartRefreshInterval(Running("connectedCallback")))
    /\ UNCHANGED <<config, hass, isUpdatePending, changedProperties,
                   hasUpdated>>

\* disconnectedCallback that destroys but keeps the reference
DisconnectedKeepsManager(st) ==
    LET st1 == StopRefreshInterval(st)
    IN IF st1.mgr # 0
       THEN [st1 EXCEPT !.calls = Append(@, Call("destroy", st1.mgr, 0)),
                        !.last.destroyed = TRUE]
       ELSE st1

\* the body of disconnectedCallback after super.disconnectedCallback()
Disconnected(st) ==
    LET st1 == StopRefreshInterval(st)
    IN IF st1.mgr # 0
       THEN [st1 EXCEPT !.calls = Append(@, Call("destroy", st1.mgr, 0)),
                        !.mgr = 0,
                        !.last.destroyed = TRUE]
       ELSE st1

DisconnectedCallback ==
    /\ attached' = FALSE
    /\ Commit(Disconnected(Running("disconnectedCallback")))
    /\ UNCHANGED <<config, hass, enabled, isUpdatePending, changedProperties,
                   hasUpdated>>

\* ---- updateChart ----------------------------------------------------------
\* updateChart up to its await: returns early without a manager or hass,
\* otherwise a fetch cycle is now in flight
UpdateChart(st, trigger) ==
    IF st.mgr = 0 \/ ~hass
    THEN [st EXCEPT !.last.triggers = Append(@, trigger)]
    ELSE [st EXCEPT !.last.triggers = Append(@, trigger),
                    !.inflight = @ \cup {st.nextCycle},
                    !.nextCycle = @ + 1]

\* updateChart that holds on to the manager it saw before the await
UpdateChartResumeCaptured(st, c) ==
    [st EXCEPT !.inflight = @ \ {c},
               !.calls = Append(@, Call("update", Len(st.adapters), c))]

\* updateChart after its await, fetchEntityData of cycle c having resolved:
\* it reads this.chartManager now; on null the TypeError is caught and logged
UpdateChartResume(st, c) ==
    IF st.mgr # 0
    THEN [st EXCEPT !.inflight = @ \ {c},
                    !.calls = Append(@, Call("update", st.mgr, c))]
    ELSE [st EXCEPT !.inflight = @ \ {c},
                    !.discarded = @ \cup {c}]

GetAdapterFactory == IF config.library = "d3" THEN "d3" ELSE "chartjs"

\* render(): the template holds the chart container only with config and hass
Render == config.set /\ hass

InitializeChart(st) ==
    IF ~Render
    THEN [st EXCEPT !.container = FALSE]
    ELSE LET m == Len(st.adapters) + 1
         IN UpdateChart(
              [st EXCEPT !.container = TRUE,
                         !.mgr = m,
                         !.adapters = Append(@, GetAdapterFactory),
                         !.calls = Append(@, Call("initialize", m, 0))],
              "initial")

\* updated that looks for the chart container again while no manager exists
UpdatedRetriesInitialize(st) ==
    IF st.mgr = 0 /\ ~st.container
    THEN InitializeChart(st)
    ELSE IF "hass" \in changedProperties /\ st.mgr # 0
    THEN UpdateChart(st, "hass")
    ELSE st

\* updated(changedProperties)
Updated(st) ==
    IF "hass" \in changedProperties /\ st.mgr # 0
    THEN UpdateChart(st, "hass")
    ELSE st

FirstUpdated(st) == InitializeChart(st)

\* Lit's update cycle: render, then firstUpdated on the first update, then
\* updated, all with the same changedProperties
PerformUpdate ==
    /\ enabled
    /\ isUpdatePending
    /\ LET st0 == Running("performUpdate")
           st1 == IF ~hasUpdated THEN FirstUpdated(st0) ELSE st0
       IN Commit(Updated(st1))
    /\ hasUpdated' = TRUE
    /\ isUpdatePending' = FALSE
    /\ changedProperties' = {}
    /\ UNCHANGED <<config, hass, attached, enabled>>

\* the interval callback of a running timer
Tick(t) ==
    /\ t \in timers
    /\ Commit(UpdateChart(Running("tick"), "timer"))
    /\ UNCHANGED <<config, hass, attached, enabled, isUpdatePending,
                   changedProperties, hasUpdated>>

FetchSettles(c) ==
    /\ c \in inflight
    /\ Commit(UpdateChartResume(Running("fetchSettles"), c))
    /\ UNCHANGED <<config, hass, attached, enabled, isUpdatePending,
                   changedProperties, hasUpdated>>

\* fetchEntityData of cycle c rejects: the catch block logs, nothing applied
FetchRejects(c) ==
    /\ c \in inflight
    /\ Commit([Running("fetchRejects") EXCEPT !.inflight = @ \ {c}])
    /\ UNCHANGED <<config, hass, attached, enabled, isUpdatePending,
                   changedProperties, hasUpdated>>

\* ---- createAxisIdMapping ---------------------------------------------------
\* A yaxis_id is a string, modelled as the sequence of its characters' codes
\* (digits); the empty string, like a missing yaxis_id, is falsy.
AxisIds == {<<>>, <<0>>, <<1>>, <<1, 0>>, <<2>>}

\* comparison by length first, as numbers without leading zeros compare
StrLessNumeric(a, b) ==
    \/ Len(a) < Len(b)
    \/ /\ Len(a) = Len(b)
       /\ \E k \in 1..Len(a) :
            /\ \A j \in 1..(k - 1) : a[j] = b[j]
            /\ a[k] < b[k]

\* string comparison of Array.prototype.sort's default order (code units,
\* a proper prefix first)
RECURSIVE StrLess(_, _)
StrLess(a, b) ==
    IF Len(b) = 0 THEN FALSE
    ELSE IF Len(a) = 0 THEN TRUE
    ELSE IF Head(a) # Head(b) THEN Head(a) < Head(b)
    ELSE StrLess(Tail(a), Tail(b))

InSeq(x, s) == \E i \in 1..Len(s) : s[i] = x

\* usedAxisIds: a Set keeps its members in insertion order
RECURSIVE UsedAxisIds(_)
UsedAxisIds(entities) ==
    IF Len(entities) = 0 THEN <<>>
    ELSE LET n == Len(entities)
             rest == UsedAxisIds(SubSeq(entities, 1, n - 1))
             id == entities[n]
         IN IF Len(id) > 0 /\ ~InSeq(id, rest) THEN Append(rest, id) ELSE rest

RECURSIVE InsertSorted(_, _)
InsertSorted(x, s) ==
    IF Len(s) = 0 THEN <<x>>
    ELSE IF StrLess(x, Head(s)) THEN <<x>> \o s
    ELSE <<Head(s)>> \o InsertSorted(x, Tail(s))

\* the ids left in insertion order
SortIdsUnsorted(s) == s

\* Array.from(usedAxisIds).sort()
RECURSIVE SortIds(_)
SortIds(s) ==
    IF Len(s) = 0 THEN <<>>
    ELSE InsertSorted(s[Len(s)], SortIds(SubSeq(s, 1, Len(s) - 1)))

SortedIds(entities) == SortIds(UsedAxisIds(entities))

\* a mapping that hands every id beyond the second a slot of its own
CreateAxisIdMappingExtraSlots(entities) ==
    LET sortedIds == SortedIds(entities)
    IN [id \in {sortedIds[i] : i \in 1..Len(sortedIds)} |->
          IF Len(sortedIds) > 1 /\ id = sortedIds[2] THEN "y2"
          ELSE IF Len(sortedIds) > 2 /\ id = sortedIds[3] THEN "y3"
          ELSE "y"]

\* the Map returned: logical axis id -> "y" or "y2"
CreateAxisIdMapping(entities) ==
    LET sortedIds == SortedIds(entities)
    IN [id \in {sortedIds[i] : i \in 1..Len(sortedIds)} |->
          IF Len(sortedIds) > 1 /\ id = sortedIds[2] THEN "y2" ELSE "y"]

\* fetchEntityData: the yAxisId of the series of an entity declaring id
SeriesYAxisId(mapping, id) ==
    IF Len(id) > 0 /\ id \in DOMAIN mapping THEN mapping[id] ELSE "y"

\* console.warn is reached
AxisWarning(entities) == Len(SortedIds(entities)) > 2

EntityLists ==
    UNION {[1..n -> AxisIds] : n \in 0..MaxAxisEntities}

Reorderings(s) ==
    LET n == Len(s)
        bij == {p \in [1..n -> 1..n] : \A i, j \in 1..n : p[i] = p[j] => i = j}
    IN {[i \in 1..n |-> s[p[i]]] : p \in bij}

\* fetchEntityData builds the mapping for the configured entities
AxisFetch ==
    /\ axisIdMapping' = CreateAxisIdMapping(entityAxisIds)
    /\ axisComputed' = TRUE
    /\ UNCHANGED entityAxisIds

\* the same entities are declared in another order, then mapped
AxisReorder ==
    /\ \E p \in Reorderings(entityAxisIds) :
          /\ p # entityAxisIds
          /\ entityAxisIds' = p
          /\ axisIdMapping' = CreateAxisIdMapping(p)
    /\ axisComputed' = TRUE

InitAxisInputs ==
    /\ entityAxisIds \in EntityLists
    /\ axisIdMapping = <<>>
    /\ axisComputed = FALSE

\* ---- createChartOptions ------------------------------------------------------
\* config.yaxis is modelled by the id of each definition (the empty id for a
\* definition without one); a definition is named by its index, 0 for none.
YAxisLists ==
    UNION {[1..n -> AxisIds] : n \in 0..MaxYAxis}

\* axisMap.get(id): a later definition with the same id replaces an earlier
AxisMapGet(yaxis, id) ==
    LET hits == {i \in 1..Len(yaxis) : Len(yaxis[i]) > 0 /\ yaxis[i] = id}
    IN IF hits = {} THEN 0 ELSE CHOOSE i \in hits : \A j \in hits : j <= i

\* the y-axis part of createChartOptions: the definitions placed in axes.y
\* and axes.y2
CreateChartOptions(entities, yaxis) ==
    IF Len(yaxis) = 0 THEN [y |-> 0, y2 |-> 0]
    ELSE
      LET usedAxisIds == UsedAxisIds(entities)
          primaryAxisId ==
              IF InSeq(<<0>>, usedAxisIds) THEN <<0>>
              ELSE IF Len(usedAxisIds) > 0 THEN usedAxisIds[1] ELSE <<0>>
          primaryYAxis ==
              IF AxisMapGet(yaxis, primaryAxisId) # 0
              THEN AxisMapGet(yaxis, primaryAxisId) ELSE 1
          others == {i \in 1..Len(usedAxisIds) :
                        usedAxisIds[i] # primaryAxisId}
          secondaryAxisId ==
              IF InSeq(<<1>>, usedAxisIds) THEN <<1>>
              ELSE IF others = {} THEN <<>>
              ELSE usedAxisIds[CHOOSE i \in others : \A j \in others : i <= j]
      IN [y |-> primaryYAxis,
          y2 |-> IF Len(usedAxisIds) > 1 /\ Len(secondaryAxisId) > 0
                 THEN AxisMapGet(yaxis, secondaryAxisId) ELSE 0]

\* initializeChart builds the chart options
LayoutInitialize ==
    /\ ~layoutDone
    /\ chartAxes' = CreateChartOptions(entityAxisIds, yaxisConfig)
    /\ layoutDone' = TRUE
    /\ UNCHANGED yaxisConfig

InitLayoutInputs ==
    /\ yaxisConfig \in YAxisLists
    /\ chartAxes = [y |-> 0, y2 |-> 0]
    /\ layoutDone = FALSE

\* ---- JavaScript values ---------------------------------------------------
\* a value is tagged with its type; v is the number a number or a numeric
\* string denotes
Num(n) == [t |-> "num", v |-> n]
NaN == [t |-> "nan", v |-> 0]
Infinity == [t |-> "inf", v |-> 0]
Undefined == [t |-> "undef", v |-> 0]
Null == [t |-> "null", v |-> 0]
NumericString(n) == [t |-> "str", v |-> n]
Text == [t |-> "text", v |-> 0]

\* isNaN(v): v converted to a number is NaN
IsNaN(v) == v.t \in {"nan", "undef", "text"}

\* v || w
OrElse(v, w) ==
    IF v.t \in {"nan", "undef", "null"} \/ (v.t = "num" /\ v.v = 0)
    THEN w ELSE v

\* state strings a history record may carry
StateStrings == {"21", "0", "7x", "on", "Infinity", "unknown", "unavailable"}

\* parseFloat: the longest numeric prefix, the literal Infinity, else NaN
ParseFloat(str) ==
    CASE str = "21" -> Num(21)
      [] str = "0" -> Num(0)
      [] str = "7x" -> Num(7)
      [] str = "Infinity" -> Infinity
      [] OTHER -> NaN

\* ---- processHistoryData ------------------------------------------------------
\* what state.attributes[entityConfig.attribute] may yield (JSON values, or
\* undefined for a missing attribute)
AttributeValues == {Num(5), Undefined, Null, NumericString(5), Text}

\* a history record: its state, its last_changed (the records of a query are
\* chronological: the position serves as the time) and the attribute looked up
HistoryLists ==
    UNION {
        {[i \in 1..n |-> [state |-> f[i][1], last_changed |-> i,
                          attr |-> f[i][2]]] :
            f \in [1..n -> StateStrings \X AttributeValues]} :
        n \in 0..MaxRecords}

HistoryValue(state, entityConfig) ==
    IF entityConfig.attribute THEN state.attr ELSE ParseFloat(state.state)

HistoryPoint(state, entityConfig) ==
    LET value == HistoryValue(state, entityConfig)
    IN [x |-> state.last_changed,
        y |-> IF IsNaN(value) THEN Num(0) ELSE value]

ProcessHistoryData(history, entityConfig) ==
    LET kept == SelectSeq(history,
                    LAMBDA state : /\ state.state # "unknown"
                                   /\ state.state # "unavailable")
        points == [i \in 1..Len(kept) |-> HistoryPoint(kept[i], entityConfig)]
    IN SelectSeq(points, LAMBDA point : ~IsNaN(point.y))

ProcessHistory ==
    /\ ~dataDone
    /\ dataPoints' = ProcessHistoryData(dataRecords, dataConfig)
    /\ dataDone' = TRUE
    /\ UNCHANGED <<dataRecords, dataConfig>>

InitHistoryInputs ==
    /\ dataRecords \in HistoryLists
    /\ dataConfig \in [attribute : BOOLEAN]
    /\ dataPoints = <<>>
    /\ dataDone = FALSE

\* ---- fetchStatistics ---------------------------------------------------------
\* stat_type of the entity: one of the five kinds, not set, or another string
StatTypes == {"min", "max", "mean", "sum", "state", "unset", "change"}

\* a statistics record: each field is a number or absent
StatRecords ==
    [min : {Undefined, Num(3)}, max : {Undefined, Num(8)},
     mean : {Undefined, Num(5)}, sum : {Undefined, Num(0)},
     state : {Undefined, Num(6)}]

StatLists ==
    UNION {
        {[i \in 1..n |-> [start |-> i, stat |-> f[i]]] :
            f \in [1..n -> StatRecords]} :
        n \in 0..MaxRecords}

\* the switch on statType
StatValue(stat, statType) ==
    CASE statType = "min" -> stat.min
      [] statType = "max" -> stat.max
      [] statType = "mean" -> stat.mean
      [] statType = "sum" -> stat.sum
      [] statType = "state" -> stat.state
      [] OTHER -> OrElse(stat.mean, stat.state)

\* fetchStatistics; ok is whether the recorder query resolved
FetchStatistics(records, entityConfig, ok) ==
    IF ~ok THEN <<>>
    ELSE IF Len(records) = 0 THEN <<>>
    ELSE
      LET statType == IF entityConfig.statType = "unset" THEN "mean"
                      ELSE entityConfig.statType
          points == [i \in 1..Len(records) |->
                       [x |-> records[i].start,
                        y |-> OrElse(StatValue(records[i].stat, statType),
                                     Num(0))]]
      IN SelectSeq(points, LAMBDA point : ~IsNaN(point.y))

StatisticsResolve ==
    /\ ~dataDone
    /\ dataPoints' = FetchStatistics(dataRecords, dataConfig, TRUE)
    /\ dataDone' = TRUE
    /\ UNCHANGED <<dataRecords, dataConfig>>

InitStatisticsInputs ==
    /\ dataRecords \in StatLists
    /\ dataConfig \in [statType : StatTypes]
    /\ dataPoints = <<>>
    /\ dataDone = FALSE

\* ---- fetchEntityData ----------------------------------------------------------
\* One refresh cycle with a live manager.  An entity is configured for
\* statistics or history and is present in hass.states or not.
FetchEntityLists ==
    UNION {[1..n -> [present : BOOLEAN, statistics : BOOLEAN]] :
              n \in 1..MaxFetchEntities}

\* what the queries return for an entity when they resolve
SampleHistory ==
    <<[state |-> "21", last_changed |-> 1, attr |-> Undefined],
      [state |-> "unavailable", last_changed |-> 2, attr |-> Undefined]>>
SampleStatistics ==
    <<[start |-> 1,
       stat |-> [min |-> Num(3), max |-> Num(8), mean |-> Num(5),
                 sum |-> Num(0), state |-> Num(6)]]>>

\* fetchHistory: the records, or [] from the catch block
FetchHistory(records, ok) == IF ok THEN records ELSE <<>>

Promise(kind, i, data) == [kind |-> kind, entity |-> i, data |-> data]

\* the per-entity callback without the catch blocks of the two queries
EntitySeriesUncaught(i, entityConfig, ok) ==
    IF ~entityConfig.present THEN Promise("null", i, <<>>)
    ELSE IF ~ok THEN Promise("rejected", i, <<>>)
    ELSE IF entityConfig.statistics
    THEN Promise("series", i,
                 FetchStatistics(SampleStatistics, [statType |-> "unset"], ok))
    ELSE Promise("series", i,
                 ProcessHistoryData(FetchHistory(SampleHistory, ok),
                                    [attribute |-> FALSE]))

\* the per-entity callback of fetchEntityData: null for an entity missing
\* from hass.states, else its series; ok is whether its query resolved
EntitySeries(i, entityConfig, ok) ==
    IF ~entityConfig.present THEN Promise("null", i, <<>>)
    ELSE IF entityConfig.statistics
    THEN Promise("series", i,
                 FetchStatistics(SampleStatistics, [statType |-> "unset"], ok))
    ELSE Promise("series", i,
                 ProcessHistoryData(FetchHistory(SampleHistory, ok),
                                    [attribute |-> FALSE]))

\* the resolved series taken in the order the queries settled
GatherSeriesInSettleOrder(results, order) ==
    [k \in 1..Len(order) |-> results[order[k]]]

\* Promise.all then filter: the results in entity order, nulls removed
GatherSeries(results, order) ==
    SelectSeq(results, LAMBDA r : r.kind # "null")

\* updateChart calls fetchEntityData: every callback runs up to its await
FetchEntityDataStart ==
    /\ fetchPhase = "idle"
    /\ fetchPhase' = "fetching"
    /\ fetchResults' =
          [i \in 1..Len(fetchEntities) |->
              IF fetchEntities[i].present THEN Promise("pending", i, <<>>)
              ELSE EntitySeries(i, fetchEntities[i], TRUE)]
    /\ UNCHANGED <<fetchEntities, fetchOrder, fetchFailed, fetchApplied>>

\* the query of entity i resolves (ok) or fails
QuerySettles(i, ok) ==
    /\ fetchPhase = "fetching"
    /\ fetchResults[i].kind = "pending"
    /\ fetchResults' =
          [fetchResults EXCEPT ![i] = EntitySeries(i, fetchEntities[i], ok)]
    /\ fetchOrder' = Append(fetchOrder, i)
    /\ fetchFailed' = IF ok THEN fetchFailed ELSE fetchFailed \cup {i}
    /\ UNCHANGED <<fetchEntities, fetchPhase, fetchApplied>>

\* Promise.all settles and updateChart resumes: update on success, the catch
\* block on a rejection
PromiseAllSettles ==
    /\ fetchPhase = "fetching"
    /\ LET kinds == {fetchResults[i].kind : i \in 1..Len(fetchResults)}
       IN /\ "rejected" \in kinds \/ "pending" \notin kinds
          /\ IF "rejected" \in kinds
             THEN fetchPhase' = "rejected" /\ UNCHANGED fetchApplied
             ELSE /\ fetchPhase' = "applied"
                  /\ fetchApplied' = GatherSeries(fetchResults, fetchOrder)
    /\ UNCHANGED <<fetchEntities, fetchResults, fetchOrder, fetchFailed>>

InitFetchInputs ==
    /\ fetchEntities \in FetchEntityLists
    /\ fetchPhase = "idle"
    /\ fetchResults = <<>>
    /\ fetchOrder = <<>>
    /\ fetchFailed = {}
    /\ fetchApplied = <<>>

\* ---- the card ---------------------------------------------------------------
InitCard ==
    /\ config = NoConfig
    /\ hass = FALSE
    /\ attached = FALSE
    /\ enabled = FALSE
    /\ isUpdatePending = TRUE
    /\ changedProperties = {}
    /\ hasUpdated = FALSE
    /\ chartContainer = FALSE
    /\ chartManager = 0
    /\ adapters = <<>>
    /\ refreshInterval = 0
    /\ timers = {}
    /\ nextTimer = 1
    /\ inflight = {}
    /\ nextCycle = 1
    /\ calls = <<>>
    /\ discarded = {}
    /\ last = Did("constructor")

InitAxisIdle ==
    /\ entityAxisIds = <<>>
    /\ axisIdMapping = <<>>
    /\ axisComputed = FALSE

InitLayoutIdle ==
    /\ yaxisConfig = <<>>
    /\ chartAxes = [y |-> 0, y2 |-> 0]
    /\ layoutDone = FALSE

InitDataIdle ==
    /\ dataRecords = <<>>
    /\ dataConfig = [attribute |-> FALSE]
    /\ dataPoints = <<>>
    /\ dataDone = FALSE

InitFetchIdle ==
    /\ fetchEntities = <<>>
    /\ fetchPhase = "idle"
    /\ fetchResults = <<>>
    /\ fetchOrder = <<>>
    /\ fetchFailed = {}
    /\ fetchApplied = <<>>

Init ==
    InitCard /\ InitAxisIdle /\ InitLayoutIdle /\ InitDataIdle /\ InitFetchIdle

Next ==
    \/ \E c \in ConfigInputs : SetConfig(c) /\ UNCHANGED pureVars
    \/ SetHass /\ UNCHANGED pureVars
    \/ ConnectedCallback /\ UNCHANGED pureVars
    \/ DisconnectedCallback /\ UNCHANGED pureVars
    \/ PerformUpdate /\ UNCHANGED pureVars
    \/ \E t \in timers : Tick(t) /\ UNCHANGED pureVars
    \/ \E c \in inflight : FetchSettles(c) /\ UNCHANGED pureVars
    \/ \E c \in inflight : FetchRejects(c) /\ UNCHANGED pureVars

Spec == Init /\ [][Next]_vars

NextAxis ==
    \/ AxisFetch /\ UNCHANGED <<cardVars, layoutVars, dataVars, fetchVars>>
    \/ AxisReorder /\ UNCHANGED <<cardVars, layoutVars, dataVars, fetchVars>>

InitAxis ==
    InitCard /\ InitAxisInputs /\ InitLayoutIdle /\ InitDataIdle
        /\ InitFetchIdle

SpecAxis == InitAxis /\ [][NextAxis]_vars

NextLayout ==
    \/ LayoutInitialize /\ UNCHANGED <<cardVars, axisVars, dataVars, fetchVars>>
    \/ AxisFetch /\ UNCHANGED <<cardVars, layoutVars, dataVars, fetchVars>>

InitLayout ==
    InitCard /\ InitAxisInputs /\ InitLayoutInputs /\ InitDataIdle
        /\ InitFetchIdle

SpecLayout == InitLayout /\ [][NextLayout]_vars

NextHistory ==
    ProcessHistory /\ UNCHANGED <<cardVars, axisVars, layoutVars, fetchVars>>

InitHistory ==
    InitCard /\ InitAxisIdle /\ InitLayoutIdle /\ InitHistoryInputs
        /\ InitFetchIdle

SpecHistory == InitHistory /\ [][NextHistory]_vars

NextStatistics ==
    StatisticsResolve /\ UNCHANGED <<cardVars, axisVars, layoutVars, fetchVars>>

InitStatistics ==
    InitCard /\ InitAxisIdle /\ InitLayoutIdle /\ InitStatisticsInputs
        /\ InitFetchIdle

SpecStatistics == InitStatistics /\ [][NextStatistics]_vars

NextFetch ==
    \/ FetchEntityDataStart
          /\ UNCHANGED <<cardVars, axisVars, layoutVars, dataVars>>
    \/ \E i \in 1..Len(fetchEntities) : \E ok \in BOOLEAN :
          QuerySettles(i, ok)
              /\ UNCHANGED <<cardVars, axisVars, layoutVars, dataVars>>
    \/ PromiseAllSettles
          /\ UNCHANGED <<cardVars, axisVars, layoutVars, dataVars>>

InitFetch ==
    InitCard /\ InitAxisIdle /\ InitLayoutIdle /\ InitDataIdle
        /\ InitFetchInputs

SpecFetch == InitFetch /\ [][NextFetch]_vars

\* ---- properties -------------------------------------------------------------
CallsOf(op, m) == {i \in 1..Len(calls) : calls[i].op = op /\ calls[i].mgr = m}
Managers == 1..Len(adapters)
Count(seq, x) == Cardinality({i \in 1..Len(seq) : seq[i] = x})
\* the last step created and initialized a manager
MountedNow ==
    /\ last.handler = "performUpdate"
    /\ calls # <<>>
    /\ calls[Len(calls)].op = "initialize"

\* C1: chartManager.update is never called with the series of an older
\* refresh cycle after it was called with the series of a later cycle.
C1_NoStaleUpdate ==
    \A i, j \in 1..Len(calls) :
        (i < j /\ calls[i].op = "update" /\ calls[j].op = "update")
            => calls[i].cycle <= calls[j].cycle

\* C2: refresh cycles are serialized: at most one fetch-and-transform cycle
\* is in flight at any time.
C2_AtMostOneInFlight == Cardinality(inflight) <= 1

\* C3: once disconnectedCallback has destroyed a manager, update is never
\* called on it again, and a cycle that resolves with the manager gone is
\* discarded, not applied.
C3_NoUpdateAfterDestroy ==
    /\ \A i, j \in 1..Len(calls) :
          (i < j /\ calls[i].op = "destroy" /\ calls[j].op = "update")
              => calls[i].mgr # calls[j].mgr
    /\ \A c \in discarded : \A i \in 1..Len(calls) :
          calls[i].op = "update" => calls[i].cycle # c
    /\ \A i \in 1..Len(calls) :
          calls[i].op = "destroy" => chartManager # calls[i].mgr

\* a cycle in flight at destruction resolved afterwards and was dropped
C3_Witness ==
    /\ discarded # {}
    /\ \E i \in 1..Len(calls) : calls[i].op = "destroy"

\* C4: every manager the card creates is initialized exactly once, before
\* any update on it, and destroyed at most once (a repeated
\* disconnectedCallback does not destroy again).
C4_ManagerLifecycle ==
    /\ \A i \in 1..Len(calls) : calls[i].mgr \in Managers
    /\ \A m \in Managers :
          /\ Cardinality(CallsOf("initialize", m)) = 1
          /\ Cardinality(CallsOf("destroy", m)) <= 1
          /\ \A i \in CallsOf("initialize", m) : \A j \in CallsOf("update", m) :
                i < j

\* a manager was initialized, updated and destroyed, and a further
\* disconnectedCallback has just run without destroying anything
C4_Witness ==
    /\ last.handler = "disconnectedCallback"
    /\ ~last.destroyed
    /\ \E m \in Managers :
          /\ CallsOf("update", m) # {}
          /\ CallsOf("destroy", m) # {}

\* C5: after the first render, whenever the card is attached it holds a
\* live manager (a detach followed by a re-attach re-creates it).
C5_AttachedHasLiveManager ==
    (hasUpdated /\ chartContainer /\ attached) => chartManager # 0

\* C6: a live manager's adapter belongs to the backend named by the current
\* configuration (setConfig with another backend destroys the old manager).
C6_LiveManagerMatchesBackend ==
    chartManager # 0 => adapters[chartManager] = config.library

\* C7: at most one interval timer is live and it is the one held in
\* refreshInterval; none is left running once refreshInterval is null; a
\* start while running creates none, a stop while stopped clears none.
C7_SingleTimer ==
    /\ timers = (IF refreshInterval = 0 THEN {} ELSE {refreshInterval})
    /\ Cardinality(timers) <= 1
    /\ last.setIntervals <= 1
    /\ last.clearIntervals <= 1

\* connectedCallback has just run while a timer was running and made none
C7_Witness ==
    /\ last.handler = "connectedCallback"
    /\ last.setIntervals = 0
    /\ refreshInterval # 0
    /\ nextTimer > MaxTimers

\* C8: exactly one refresh is invoked by initializeChart right after the
\* manager is mounted, then one per timer period for as long as the card
\* stays attached, and no timer-driven refresh after disconnectedCallback.
C8_RefreshSchedule ==
    /\ Count(last.triggers, "initial") = (IF MountedNow THEN 1 ELSE 0)
    /\ Count(last.triggers, "timer") = (IF last.handler = "tick" THEN 1 ELSE 0)
    /\ (chartManager # 0 /\ attached) => refreshInterval \in timers
    /\ ~attached => timers = {}

\* C9: setConfig with a missing or empty entity list throws and leaves the
\* stored configuration unchanged; a card that never had an accepted
\* configuration creates no manager and makes no initialize or update call.
C9_ZeroEntitiesRejected ==
    /\ [](~config.set =>
            /\ chartManager = 0
            /\ adapters = <<>>
            /\ calls = <<>>
            /\ inflight = {})
    /\ [][\A c \in ConfigInputs :
            ((~c.hasEntities \/ c.entities = <<>>) /\ SetConfig(c))
                => (last'.thrown = ConfigError /\ config' = config)]_vars

\* an attached card with hass has rendered without a configuration and has
\* just rejected a setConfig
C9_Witness ==
    /\ last.handler = "setConfig"
    /\ last.thrown = ConfigError
    /\ ~config.set
    /\ hass /\ attached /\ hasUpdated

\* C10: createAxisIdMapping is order-independent: every permutation of the
\* entity declaration order yields the identical id -> slot mapping.
C10_OrderIndependent ==
    axisComputed =>
        \A p \in Reorderings(entityAxisIds) :
            CreateAxisIdMapping(p) = axisIdMapping

\* a mapping computed for entities that declare two or more distinct ids in
\* an order other than the sorted one
C10_Witness ==
    /\ axisComputed
    /\ Len(UsedAxisIds(entityAxisIds)) >= 2
    /\ UsedAxisIds(entityAxisIds) # SortedIds(entityAxisIds)

\* the distinct logical ids the entities declare
DeclaredIds(entities) ==
    {entities[i] : i \in 1..Len(entities)} \ {<<>>}

\* a precedes b lexicographically on their string form
LexBefore(a, b) ==
    \E k \in 1..Len(b) :
        /\ k <= Len(a) + 1
        /\ \A j \in 1..(k - 1) : a[j] = b[j]
        /\ (k = Len(a) + 1 \/ a[k] < b[k])

\* the policy of the axis mapper: first id to y, second to y2, others to y
ReferencePolicy(entities) ==
    LET ids == DeclaredIds(entities)
    IN [id \in ids |->
          IF Cardinality({x \in ids : LexBefore(x, id)}) = 1 THEN "y2"
          ELSE "y"]

\* C11: every series carries a slot from {y, y2}, whatever the number of
\* distinct ids and whether or not the entity declares one; when no entity
\* declares an id every series uses y.
C11_TwoSlots ==
    axisComputed =>
        /\ \A i \in 1..Len(entityAxisIds) :
              SeriesYAxisId(axisIdMapping, entityAxisIds[i]) \in {"y", "y2"}
        /\ DeclaredIds(entityAxisIds) = {} =>
              \A i \in 1..Len(entityAxisIds) :
                  SeriesYAxisId(axisIdMapping, entityAxisIds[i]) = "y"

\* a mapping was built for entities declaring three distinct ids
C11_Witness ==
    /\ axisComputed
    /\ Cardinality(DeclaredIds(entityAxisIds)) >= 3

\* C12: createAxisIdMapping equals the reference policy (ids sorted
\* lexicographically by string form, first to y, second to y2, the rest to
\* y), and the warning is emitted exactly with more than two distinct ids.
C12_ReferencePolicy ==
    axisComputed =>
        /\ axisIdMapping = ReferencePolicy(entityAxisIds)
        /\ AxisWarning(entityAxisIds)
              <=> Cardinality(DeclaredIds(entityAxisIds)) > 2

\* ids "1", "10" and "2" are declared (string and numeric order differ):
\* "10" is second and gets y2, "2" is third and falls back to y, with warning
C12_Witness ==
    /\ axisComputed
    /\ DeclaredIds(entityAxisIds) = {<<1>>, <<1, 0>>, <<2>>}
    /\ axisIdMapping[<<1, 0>>] = "y2"
    /\ axisIdMapping[<<2>>] = "y"
    /\ AxisWarning(entityAxisIds)

\* C18: the axis layout of createChartOptions agrees with the mapping of
\* createAxisIdMapping: the definition placed in axes.y has the logical id
\* the mapping sends to y, the one placed in axes.y2 the id it sends to y2
\* (stated for configurations that define exactly the declared ids).
C18_LayoutAgreesWithMapping ==
    (/\ layoutDone
     /\ axisComputed
     /\ {yaxisConfig[i] : i \in 1..Len(yaxisConfig)}
            = DeclaredIds(entityAxisIds))
    =>
        /\ chartAxes.y # 0 =>
              axisIdMapping[yaxisConfig[chartAxes.y]] = "y"
        /\ chartAxes.y2 # 0 =>
              axisIdMapping[yaxisConfig[chartAxes.y2]] = "y2"

\* a value that counts as a finite number (a numeric string and null convert
\* to one)
Finite(v) == v.t \in {"num", "str", "null"}

\* C13: processHistoryData never emits a point whose y is NaN, +/-Infinity
\* or undefined, and never a point for a record whose state is 'unknown' or
\* 'unavailable'.
C13_NoNonFinitePoint ==
    dataDone =>
        \A k \in 1..Len(dataPoints) :
            /\ dataPoints[k].y.t \notin {"nan", "inf", "undef"}
            /\ dataRecords[dataPoints[k].x].state
                  \notin {"unknown", "unavailable"}

\* the points the claim expects: one per record with a non-sentinel state
\* and a finite computed value, in input order
ExpectedHistoryPoints ==
    LET kept == SelectSeq(dataRecords,
                    LAMBDA r : /\ r.state \notin {"unknown", "unavailable"}
                               /\ Finite(HistoryValue(r, dataConfig)))
    IN [i \in 1..Len(kept) |->
          [x |-> kept[i].last_changed, y |-> HistoryValue(kept[i], dataConfig)]]

\* C14: processHistoryData outputs exactly one point per record with a
\* non-sentinel state and a finite computed value, in input order, with
\* x = last_changed and y = the value; a record whose value is not finite is
\* dropped, not turned into a point with y = 0.
C14_HistoryPoints ==
    dataDone => dataPoints = ExpectedHistoryPoints

\* the value the claim selects: the field, else mean, else state
ExpectedStatValue(stat, statType) ==
    LET kind == IF statType = "unset" THEN "mean" ELSE statType
        selected == StatValue(stat, kind)
    IN IF selected.t # "undef" THEN selected
       ELSE IF stat.mean.t # "undef" THEN stat.mean
       ELSE stat.state

ExpectedStatPoints ==
    LET kept == SelectSeq(dataRecords,
                    LAMBDA r : Finite(ExpectedStatValue(r.stat,
                                                        dataConfig.statType)))
    IN [i \in 1..Len(kept) |->
          [x |-> kept[i].start,
           y |-> ExpectedStatValue(kept[i].stat, dataConfig.statType)]]

\* C15: in statistics mode, for each of the kinds min, max, mean, sum, state
\* (default mean), a point's y is the selected field when present, otherwise
\* mean, otherwise state; a record is dropped exactly when that value is not
\* finite, and every surviving record yields one point with x = start.
C15_StatisticsFallback ==
    (dataDone /\ dataConfig.statType # "change")
        => dataPoints = ExpectedStatPoints

\* C16: every completed cycle passes to chartManager.update exactly one
\* series per configured entity; an entity absent from the state table
\* contributes a series with empty data.
C16_OneSeriesPerEntity ==
    fetchPhase = "applied" =>
        /\ Len(fetchApplied) = Len(fetchEntities)
        /\ \A i \in 1..Len(fetchApplied) :
              /\ fetchApplied[i].entity = i
              /\ ~fetchEntities[i].present => fetchApplied[i].data = <<>>

\* C17: whatever subset of the queries fails, the cycle completes with a
\* call of chartManager.update; a failing entity contributes a series with
\* empty data and every other entity's series is what it is when no query
\* fails.
C17_QueryFailureIsolated ==
    /\ fetchPhase # "rejected"
    /\ fetchPhase = "applied" =>
          \A i \in 1..Len(fetchEntities) :
              fetchEntities[i].present =>
                  /\ Cardinality({k \in 1..Len(fetchApplied) :
                                     fetchApplied[k].entity = i}) = 1
                  /\ \A k \in 1..Len(fetchApplied) :
                        fetchApplied[k].entity = i =>
                            fetchApplied[k].data =
                                IF i \in fetchFailed THEN <<>>
                                ELSE EntitySeries(i, fetchEntities[i],
                                                  TRUE).data

\* a cycle was applied in which one query failed and another entity still
\* delivered its points
C17_Witness ==
    /\ fetchPhase = "applied"
    /\ fetchFailed # {}
    /\ \E k \in 1..Len(fetchApplied) :
          /\ fetchApplied[k].entity \notin fetchFailed
          /\ fetchApplied[k].data # <<>>

\* C20: the per-entity fetches may settle in any order, yet the series are
\* passed to chartManager.update in configuration order, and only once every
\* per-entity fetch of the cycle has settled.
C20_OrderedCompleteSnapshot ==
    /\ fetchPhase \in {"idle", "fetching"} => fetchApplied = <<>>
    /\ fetchPhase = "applied" =>
          /\ \A i \in 1..Len(fetchResults) : fetchResults[i].kind # "pending"
          /\ \A i \in 1..Len(fetchEntities) :
                fetchEntities[i].present =>
                    \E k \in 1..Len(fetchApplied) : fetchApplied[k].entity = i
          /\ \A j, k \in 1..Len(fetchApplied) :
                j < k => fetchApplied[j].entity < fetchApplied[k].entity

\* a cycle was applied whose queries settled against the configuration order
C20_Witness ==
    /\ fetchPhase = "applied"
    /\ Len(fetchOrder) >= 2
    /\ fetchOrder[1] > fetchOrder[2]
    /\ Len(fetchApplied) >= 2

\* C19: when initializeChart does not find the chart container, no manager
\* is created, and no later event (timer tick, hass change, re-attach) looks
\* for the container again: neither initialize nor update is ever called for
\* that card.
C19_SurfaceNotFoundIsTerminal ==
    /\ []((hasUpdated /\ ~chartContainer) =>
            /\ chartManager = 0
            /\ adapters = <<>>
            /\ calls = <<>>
            /\ inflight = {})
    /\ [][(hasUpdated /\ ~chartContainer) =>
            (hasUpdated' /\ ~chartContainer' /\ chartManager' = 0)]_vars

\* the first update found no container; the card has since received config
\* and hass, is attached, and its timer has just ticked
C19_Witness ==
    /\ hasUpdated /\ ~chartContainer
    /\ Render /\ attached
    /\ last.handler = "tick"
    /\ last.triggers = <<"timer">>

====
